---- MODULE Spec2Model ----
\* Model of the dn-tracker dashboard: the two DailyDashboard variants
\* (handleValueChange and upsertFor), their optimistic row updates, the
\* upserts in flight to the daily_state table and the responses applied to
\* the rows, and the expiry computation rendered next to each row; the
\* HistoryLogViewer with its date-range loads and its export; the CSV export
\* route; and the daily reset route.
EXTENDS Integers, Sequences, FiniteSets, TLC

VARIABLES variant, characters, states, rows, calls, store, clock, history,
          startedAt, tz, renderNow, isExpired,
          csvRows, csvValue, csvOut,
          startDate, endDate, logRows, loading, pageError, exporting,
          loads, exports, downloads,
          resetPc, resetCalls, resetResponse

\* The dashboard: props, row state, upserts issued, daily_state table,
\* wall clock, and the order in which handlers and continuations ran.
dashVars == <<variant, characters, states, rows, calls, store, clock, history>>

\* The rendering of the "Expired Golden" cell: activation instant, zone
\* offset and render instant in seconds, and the verdict rendered.
expiryVars == <<startedAt, tz, renderNow, isExpired>>

\* The CSV functions: the rows and the cell value they are applied to and
\* what the last application returned.
csvVars == <<csvRows, csvValue, csvOut>>

\* The HistoryLogViewer: its state, the runs of its load effect, the runs of
\* handleExport with the requests to /api/export, and the files downloaded.
logVars == <<startDate, endDate, logRows, loading, pageError, exporting,
             loads, exports, downloads>>

\* The daily reset route: position in GET, the procedures invoked so far and
\* the response returned.
resetVars == <<resetPc, resetCalls, resetResponse>>

vars == <<dashVars, expiryVars, csvVars, logVars, resetVars>>

----------------------------------------------------------------------------
\* Bounds

MaxEdits == 2
DayTicks == 2
LastHour == 23

----------------------------------------------------------------------------
\* Optional values: null / undefined is the empty tuple, a present value v
\* is the one-element tuple <<v>>.

Null == <<>>
Some(v) == <<v>>

ErrorMessages == {"upsert failed"}

\* The CSV functions not yet applied to anything.
CsvIdle ==
  /\ csvRows = <<>>
  /\ csvValue = Null
  /\ csvOut = [op |-> "none"]

\* The log page not opened.
LogIdle ==
  /\ startDate = Null
  /\ endDate = Null
  /\ logRows = <<>>
  /\ loading = FALSE
  /\ pageError = Null
  /\ exporting = FALSE
  /\ loads = <<>>
  /\ exports = <<>>
  /\ downloads = <<>>

\* The daily reset route not requested.
ResetIdle ==
  /\ resetPc = <<>>
  /\ resetCalls = <<>>
  /\ resetResponse = <<>>

\* The "Expired Golden" cell not rendered.
ExpiryIdle ==
  /\ startedAt = 0
  /\ tz = 0
  /\ renderNow = 0
  /\ isExpired = FALSE

----------------------------------------------------------------------------
\* Field configuration

FieldKeys == <<"daily", "wtp", "sdn_outskirts", "sdn_core", "golden_goose">>

FieldKeySet == {FieldKeys[i] : i \in 1..Len(FieldKeys)}

FIELD_CONFIG ==
  [daily |-> <<"Not Started", "In Progress", "Completed">>,
   wtp |-> <<"Locked", "Available", "Cleared">>,
   sdn_outskirts |-> <<"Not Started", "Cleared", "Skipped">>,
   sdn_core |-> <<"Not Started", "Cleared", "Skipped">>,
   golden_goose |-> <<"Inactive", "Active">>]

Options(field) == {FIELD_CONFIG[field][i] : i \in 1..Len(FIELD_CONFIG[field])}

DEFAULT_VALUES ==
  [daily |-> "Not Started",
   wtp |-> "Locked",
   sdn_outskirts |-> "Not Started",
   sdn_core |-> "Not Started",
   golden_goose |-> "Inactive"]

\* a ?? b
Coalesce(a, b) == IF a = Null THEN b ELSE a[1]

----------------------------------------------------------------------------
\* UI <-> DB mapping helpers of the upsertFor variant

dailyLabelToDb(label) ==
  CASE label = "Not Started" -> "belum"
    [] label = "In Progress" -> "in_progress"
    [] label = "Completed" -> "udah"

dbToDailyLabel(value) ==
  CASE value = "belum" -> "Not Started"
    [] value = "in_progress" -> "In Progress"
    [] value = "udah" -> "Completed"

wtpLabelToDb(label) == label = "Cleared"

dbToWtpLabel(value) == IF value # Null /\ value[1] THEN "Cleared" ELSE "Locked"

outskirtsLabelToDb(label) == label = "Cleared"

dbToOutskirtsLabel(value) == IF value # Null /\ value[1] THEN "Cleared" ELSE "Not Started"

coreLabelToDb(label) ==
  CASE label = "Not Started" -> "belum"
    [] label = "Cleared" -> "udah"
    [] label = "Skipped" -> "skip"

dbToCoreLabel(value) ==
  CASE value = "belum" -> "Not Started"
    [] value = "udah" -> "Cleared"
    [] value = "skip" -> "Skipped"

goldenLabelToDb(label) == label = "Active"

dbToGoldenLabel(value) == IF value # Null /\ value[1] THEN "Active" ELSE "Inactive"

\* WIB calendar date of the instant t, as a day number
todayJakartaISODate(t) == t \div DayTicks

----------------------------------------------------------------------------
\* Rows

\* states.forEach(state => map.set(state.character_id, state)); map.get(id):
\* the last state of the character wins, undefined when there is none.
StateOf(sts, id) ==
  LET idx == {i \in 1..Len(sts) : sts[i].character_id = id}
  IN IF idx = {} THEN Null
     ELSE Some(sts[CHOOSE i \in idx : \A j \in idx : j <= i])

getInitialRows(chars, sts) ==
  [i \in 1..Len(chars) |->
    LET existing == StateOf(sts, chars[i])
    IN [characterId |-> chars[i],
        daily |-> IF existing = Null THEN DEFAULT_VALUES.daily
                  ELSE Coalesce(existing[1].daily, DEFAULT_VALUES.daily),
        wtp |-> IF existing = Null THEN DEFAULT_VALUES.wtp
                ELSE Coalesce(existing[1].wtp, DEFAULT_VALUES.wtp),
        sdn_outskirts |-> IF existing = Null THEN DEFAULT_VALUES.sdn_outskirts
                          ELSE Coalesce(existing[1].sdn_outskirts, DEFAULT_VALUES.sdn_outskirts),
        sdn_core |-> IF existing = Null THEN DEFAULT_VALUES.sdn_core
                     ELSE Coalesce(existing[1].sdn_core, DEFAULT_VALUES.sdn_core),
        golden_goose |-> IF existing = Null THEN DEFAULT_VALUES.golden_goose
                         ELSE Coalesce(existing[1].golden_goose, DEFAULT_VALUES.golden_goose),
        golden_started_at |-> IF existing = Null THEN Null ELSE existing[1].golden_started_at,
        isSaving |-> FALSE,
        lastError |-> Null]]

\* useState initialiser of the upsertFor variant
initialRowsDb(chars, sts) ==
  [i \in 1..Len(chars) |->
    LET state == StateOf(sts, chars[i])
    IN [characterId |-> chars[i],
        daily |-> IF state # Null /\ state[1].daily_status # Null
                  THEN dbToDailyLabel(state[1].daily_status[1]) ELSE DEFAULT_VALUES.daily,
        wtp |-> dbToWtpLabel(IF state = Null THEN Null ELSE state[1].wtp),
        sdn_outskirts |-> dbToOutskirtsLabel(IF state = Null THEN Null ELSE state[1].sdn_outskirts),
        sdn_core |-> IF state # Null /\ state[1].sdn_core # Null
                     THEN dbToCoreLabel(state[1].sdn_core[1]) ELSE DEFAULT_VALUES.sdn_core,
        golden_goose |-> dbToGoldenLabel(IF state = Null THEN Null ELSE state[1].golden_active),
        golden_started_at |-> IF state = Null THEN Null ELSE state[1].golden_started_at,
        isSaving |-> FALSE,
        lastError |-> Null]]

\* rows.find(row => row.characterId === characterId)
FindRow(rs, characterId) ==
  LET idx == {i \in 1..Len(rs) : rs[i].characterId = characterId}
  IN IF idx = {} THEN Null
     ELSE Some(rs[CHOOSE i \in idx : \A j \in idx : i <= j])

\* prev.map without the test of the row's characterId: every row is replaced.
MapRow_EveryRow(prev, characterId, mapped) ==
  [i \in 1..Len(prev) |-> mapped[i]]

\* prev.map(row => row.characterId === characterId ? mapped(row) : row),
\* mapped[i] being the replacement of prev[i]
MapRow(prev, characterId, mapped) ==
  [i \in 1..Len(prev) |->
    IF prev[i].characterId = characterId THEN mapped[i] ELSE prev[i]]

----------------------------------------------------------------------------
\* Construction

Characters == <<"c1", "c2">>

\* states prop of the handleValueChange variant (type DailyState): what the
\* daily_state table held when the page was rendered.
StatesLabel ==
  { <<>>,
    << [character_id |-> "c1", daily |-> Some("Completed"), wtp |-> Null,
        sdn_outskirts |-> Null, sdn_core |-> Some("Skipped"),
        golden_goose |-> Some("Active"), golden_started_at |-> Some(0)] >>,
    << [character_id |-> "c1", daily |-> Null, wtp |-> Some("Available"),
        sdn_outskirts |-> Null, sdn_core |-> Null,
        golden_goose |-> Some("Inactive"), golden_started_at |-> Some(0)] >> }

\* states prop of the upsertFor variant (type DailyStateDB); the stored rows
\* also carry the date column of their conflict key.
StatesDb ==
  { <<>>,
    << [character_id |-> "c1", date |-> 0, daily_status |-> Some("udah"),
        wtp |-> Some(TRUE), sdn_outskirts |-> Null, sdn_core |-> Some("skip"),
        golden_active |-> Some(TRUE), golden_started_at |-> Some(0)] >>,
    << [character_id |-> "c1", date |-> 0, daily_status |-> Null,
        wtp |-> Null, sdn_outskirts |-> Some(FALSE), sdn_core |-> Null,
        golden_active |-> Some(TRUE), golden_started_at |-> Null] >> }

Init ==
  /\ variant \in {"handleValueChange", "upsertFor"}
  /\ characters = Characters
  /\ states \in (IF variant = "handleValueChange" THEN StatesLabel ELSE StatesDb)
  /\ rows = (IF variant = "handleValueChange"
             THEN getInitialRows(characters, states)
             ELSE initialRowsDb(characters, states))
  /\ calls = <<>>
  /\ store = states
  /\ clock = 1
  /\ history = <<>>
  /\ ExpiryIdle
  /\ CsvIdle
  /\ LogIdle
  /\ ResetIdle

----------------------------------------------------------------------------
\* handleValueChange variant

\* PayloadField that sends the default of every field but the edited one.
PayloadField_OnlyEdited(key, field, value, targetRow) ==
  IF key = field THEN value ELSE DEFAULT_VALUES[key]

\* FIELD_CONFIG.forEach(({ key }) => payload[key] = key === field ? value : targetRow[key])
PayloadField(key, field, value, targetRow) ==
  IF key = field THEN value ELSE targetRow[key]

\* field === 'golden_goose' ? (value === 'Active' ? now : null) : targetRow.golden_started_at
NextGoldenStartedAt(field, value, targetRow, now) ==
  IF field = "golden_goose"
  THEN (IF value = "Active" THEN Some(now) ELSE Null)
  ELSE targetRow.golden_started_at

\* { ...row, [field]: value, golden_started_at: nextGoldenStartedAt,
\*   isSaving: true, lastError: null }
OptimisticRow(row, field, value, nextGoldenStartedAt) ==
  [row EXCEPT ![field] = value,
              !.golden_started_at = nextGoldenStartedAt,
              !.isSaving = TRUE,
              !.lastError = Null]

\* RollbackRow that reports the error without restoring the edited field.
RollbackRow_KeepsOptimistic(row, call) ==
  [row EXCEPT !.isSaving = FALSE,
              !.lastError = call.error]

\* { ...row, [field]: previousValue, golden_started_at: previousGoldenStartedAt,
\*   isSaving: false, lastError: error.message }
RollbackRow(row, call) ==
  [row EXCEPT ![call.field] = call.previousValue,
              !.golden_started_at = call.previousGoldenStartedAt,
              !.isSaving = FALSE,
              !.lastError = call.error]

\* { ...row, golden_started_at: nextGoldenStartedAt, isSaving: false, lastError: null }
CommitRow(row, call) ==
  [row EXCEPT !.golden_started_at = call.nextGoldenStartedAt,
              !.isSaving = FALSE,
              !.lastError = Null]

HandleValueChangePayload(characterId, field, value, targetRow, nextGoldenStartedAt, now) ==
  [character_id |-> characterId,
   updated_at |-> now,
   daily |-> PayloadField("daily", field, value, targetRow),
   wtp |-> PayloadField("wtp", field, value, targetRow),
   sdn_outskirts |-> PayloadField("sdn_outskirts", field, value, targetRow),
   sdn_core |-> PayloadField("sdn_core", field, value, targetRow),
   golden_goose |-> PayloadField("golden_goose", field, value, targetRow),
   golden_started_at |-> nextGoldenStartedAt]

\* The synchronous part of handleValueChange, up to the await of the upsert.
\* targetRow is the row of the render the handler closed over, which is the
\* current one: a render follows every state update before the next event.
\* A select fires onChange only for an option other than the one shown.
HandleValueChange(characterId, field, value) ==
  /\ variant = "handleValueChange"
  /\ Len(calls) < MaxEdits
  /\ FindRow(rows, characterId) # Null
  /\ LET targetRow == FindRow(rows, characterId)[1]
         previousValue == targetRow[field]
         previousGoldenStartedAt == targetRow.golden_started_at
         nextGoldenStartedAt == NextGoldenStartedAt(field, value, targetRow, clock)
         payload == HandleValueChangePayload(characterId, field, value, targetRow,
                                             nextGoldenStartedAt, clock)
     IN /\ value # targetRow[field]
        /\ rows' = MapRow(rows, characterId,
                          [i \in 1..Len(rows) |-> OptimisticRow(rows[i], field, value, nextGoldenStartedAt)])
        /\ calls' = Append(calls,
             [characterId |-> characterId, field |-> field, value |-> value,
              previousValue |-> previousValue,
              previousGoldenStartedAt |-> previousGoldenStartedAt,
              nextGoldenStartedAt |-> nextGoldenStartedAt,
              payload |-> payload, onConflict |-> {"character_id"},
              stage |-> "request", error |-> Null])
        /\ history' = Append(history, <<"issue", Len(calls) + 1>>)
  /\ clock' = clock + 1
  /\ UNCHANGED <<variant, characters, states, store, expiryVars, csvVars, logVars, resetVars>>

\* The continuation of handleValueChange after an upsert with an error.
HandleValueChangeFailure(id) ==
  /\ variant = "handleValueChange"
  /\ id \in 1..Len(calls)
  /\ calls[id].stage = "error"
  /\ rows' = MapRow(rows, calls[id].characterId,
                    [i \in 1..Len(rows) |-> RollbackRow(rows[i], calls[id])])
  /\ calls' = [calls EXCEPT ![id].stage = "failed"]
  /\ history' = Append(history, <<"failure", id>>)
  /\ UNCHANGED <<variant, characters, states, store, clock, expiryVars, csvVars, logVars, resetVars>>

\* The continuation of handleValueChange after an upsert without error.
HandleValueChangeSuccess(id) ==
  /\ variant = "handleValueChange"
  /\ id \in 1..Len(calls)
  /\ calls[id].stage = "ok"
  /\ rows' = MapRow(rows, calls[id].characterId,
                    [i \in 1..Len(rows) |-> CommitRow(rows[i], calls[id])])
  /\ calls' = [calls EXCEPT ![id].stage = "saved"]
  /\ history' = Append(history, <<"success", id>>)
  /\ UNCHANGED <<variant, characters, states, store, clock, expiryVars, csvVars, logVars, resetVars>>

----------------------------------------------------------------------------
\* daily_state table

\* Row i of the table conflicts with the payload on the onConflict columns.
Conflicts(row, payload, onConflict) ==
  \A k \in onConflict : k \in DOMAIN row /\ row[k] = payload[k]

\* insert-or-update: the conflicting row takes the payload's columns,
\* otherwise the payload is inserted.
Upsert(table, payload, onConflict) ==
  IF \E i \in 1..Len(table) : Conflicts(table[i], payload, onConflict)
  THEN [i \in 1..Len(table) |->
         IF Conflicts(table[i], payload, onConflict)
         THEN [k \in DOMAIN table[i] \cup DOMAIN payload |->
                IF k \in DOMAIN payload THEN payload[k] ELSE table[i][k]]
         ELSE table[i]]
  ELSE Append(table, payload)

\* supabase.from('daily_state').upsert(payload, { onConflict }) reaches the
\* table and is applied; the response carries no error.
StoreUpsert(id) ==
  /\ id \in 1..Len(calls)
  /\ calls[id].stage = "request"
  /\ store' = Upsert(store, calls[id].payload, calls[id].onConflict)
  /\ calls' = [calls EXCEPT ![id].stage = "ok"]
  /\ UNCHANGED <<variant, characters, states, rows, clock, history, expiryVars, csvVars, logVars, resetVars>>

\* The upsert is rejected (or never reaches the table); the response
\* carries an error.
StoreReject(id, message) ==
  /\ id \in 1..Len(calls)
  /\ calls[id].stage = "request"
  /\ calls' = [calls EXCEPT ![id].stage = "error", ![id].error = Some(message)]
  /\ UNCHANGED <<variant, characters, states, rows, store, clock, history, expiryVars, csvVars, logVars, resetVars>>

----------------------------------------------------------------------------
\* upsertFor variant

DEV_USER_ID == "6c790f9e-04a2-4a35-9c4f-bb7c5f505fa4"

\* { ...row, ...patch }
Spread(row, patch) ==
  [k \in DOMAIN row \cup DOMAIN patch |->
    IF k \in DOMAIN patch THEN patch[k] ELSE row[k]]

\* The patch the onChange handler of a select passes to upsertFor.
OnChangePatch(field, value, now) ==
  IF field = "golden_goose"
  THEN [golden_goose |-> value,
        golden_started_at |-> IF value = "Active" THEN Some(now) ELSE Null]
  ELSE [k \in {field} |-> value]

UpsertPayload(characterId, next, now) ==
  [user_id |-> DEV_USER_ID,
   character_id |-> characterId,
   date |-> todayJakartaISODate(now),
   daily_status |-> Some(dailyLabelToDb(next.daily)),
   wtp |-> Some(wtpLabelToDb(next.wtp)),
   sdn_outskirts |-> Some(outskirtsLabelToDb(next.sdn_outskirts)),
   sdn_core |-> Some(coreLabelToDb(next.sdn_core)),
   golden_active |-> Some(goldenLabelToDb(next.golden_goose)),
   golden_started_at |-> IF goldenLabelToDb(next.golden_goose)
                         THEN Some(Coalesce(next.golden_started_at, now))
                         ELSE Null]

\* { ...row, ...patch, isSaving: true, lastError: null }
UpsertOptimisticRow(row, patch) ==
  [Spread(row, patch) EXCEPT !.isSaving = TRUE, !.lastError = Null]

\* { ...next, golden_started_at: payload.golden_started_at, isSaving: false, lastError: null }
UpsertCommitRow(call) ==
  [call.next EXCEPT !.golden_started_at = call.payload.golden_started_at,
                    !.isSaving = FALSE,
                    !.lastError = Null]

\* { ...row, isSaving: false,
\*   lastError: error instanceof Error ? error.message : 'Failed to save' }
UpsertFailedRow(row, call, instanceofError) ==
  [row EXCEPT !.isSaving = FALSE,
              !.lastError = IF instanceofError THEN call.error
                            ELSE Some("Failed to save")]

\* onChange of a select (enabled only while the row is not saving) and the
\* synchronous part of upsertFor, up to the await of the upsert. baseRow is
\* the row of the render the handler closed over; the selects exist only for
\* rows of that render, so the 'Row not found' throw is never taken.
UpsertFor(characterId, field, value) ==
  /\ variant = "upsertFor"
  /\ Len(calls) < MaxEdits
  /\ FindRow(rows, characterId) # Null
  /\ LET baseRow == FindRow(rows, characterId)[1]
         patch == OnChangePatch(field, value, clock)
         next == Spread(baseRow, patch)
         payload == UpsertPayload(characterId, next, clock)
     IN /\ ~baseRow.isSaving
        /\ value # baseRow[field]
        /\ rows' = MapRow(rows, characterId,
                          [i \in 1..Len(rows) |-> UpsertOptimisticRow(rows[i], patch)])
        /\ calls' = Append(calls,
             [characterId |-> characterId, field |-> field, value |-> value,
              patch |-> patch, baseRow |-> baseRow, next |-> next,
              payload |-> payload, onConflict |-> {"date", "character_id"},
              stage |-> "request", error |-> Null])
        /\ history' = Append(history, <<"issue", Len(calls) + 1>>)
  /\ clock' = clock + 1
  /\ UNCHANGED <<variant, characters, states, store, expiryVars, csvVars, logVars, resetVars>>

\* The continuation of upsertFor after an upsert without error.
UpsertForSuccess(id) ==
  /\ variant = "upsertFor"
  /\ id \in 1..Len(calls)
  /\ calls[id].stage = "ok"
  /\ rows' = MapRow(rows, calls[id].characterId,
                    [i \in 1..Len(rows) |-> UpsertCommitRow(calls[id])])
  /\ calls' = [calls EXCEPT ![id].stage = "saved"]
  /\ history' = Append(history, <<"success", id>>)
  /\ UNCHANGED <<variant, characters, states, store, clock, expiryVars, csvVars, logVars, resetVars>>

\* The catch block of upsertFor; whether the client library's error object
\* is an Error instance depends on its version.
UpsertForFailure(id, instanceofError) ==
  /\ variant = "upsertFor"
  /\ id \in 1..Len(calls)
  /\ calls[id].stage = "error"
  /\ rows' = MapRow(rows, calls[id].characterId,
                    [i \in 1..Len(rows) |-> UpsertFailedRow(rows[i], calls[id], instanceofError)])
  /\ calls' = [calls EXCEPT ![id].stage = "failed"]
  /\ history' = Append(history, <<"failure", id>>)
  /\ UNCHANGED <<variant, characters, states, store, clock, expiryVars, csvVars, logVars, resetVars>>

----------------------------------------------------------------------------

CharacterIds == {Characters[i] : i \in 1..Len(Characters)}

CallIds == 1..MaxEdits

\* The selects a run operates: every select of the first character's row,
\* the Daily and Golden Goose selects of the others.
EditFields(c) ==
  IF c = Characters[1] THEN FieldKeySet ELSE {"daily", "golden_goose"}

Next ==
  \/ \E c \in CharacterIds : \E f \in EditFields(c) :
       \E v \in Options(f) : HandleValueChange(c, f, v)
  \/ \E id \in CallIds : HandleValueChangeFailure(id)
  \/ \E id \in CallIds : HandleValueChangeSuccess(id)
  \/ \E c \in CharacterIds : \E f \in EditFields(c) :
       \E v \in Options(f) : UpsertFor(c, f, v)
  \/ \E id \in CallIds : UpsertForSuccess(id)
  \/ \E id \in CallIds : \E b \in BOOLEAN : UpsertForFailure(id, b)
  \/ \E id \in CallIds : StoreUpsert(id)
  \/ \E id \in CallIds : \E m \in ErrorMessages : StoreReject(id, m)

Spec == Init /\ [][Next]_vars

----------------------------------------------------------------------------
\* Vocabulary of the properties

IssuedIds == 1..Len(calls)

RowOf(characterId) == FindRow(rows, characterId)[1]

InFlight(id) == calls[id].stage \in {"request", "ok", "error"}

LastEvent == IF history = <<>> THEN <<"none", 0>> ELSE history[Len(history)]

\* Position of an event in the history, 0 when it has not happened.
EventAt(kind, id) ==
  LET at == {i \in 1..Len(history) : history[i] = <<kind, id>>}
  IN IF at = {} THEN 0 ELSE CHOOSE i \in at : TRUE

\* The value the row showed in the edited field right before the edit.
PreEditValue(call) ==
  IF variant = "handleValueChange" THEN call.previousValue
  ELSE call.baseRow[call.field]

\* The activation timestamp the edit computes (step 2 of applyEdit).
ComputedTimestamp(call) ==
  IF variant = "handleValueChange" THEN call.nextGoldenStartedAt
  ELSE IF call.field = "golden_goose" THEN call.patch.golden_started_at
  ELSE call.baseRow.golden_started_at

\* The activation timestamp the row showed right before the edit.
PreEditTimestamp(call) ==
  IF variant = "handleValueChange" THEN call.previousGoldenStartedAt
  ELSE call.baseRow.golden_started_at

SameRow(a, b) == calls[a].characterId = calls[b].characterId

\* No edit issued after id targets the same field of the same row.
NewestOnField(id) ==
  \A k \in IssuedIds :
    (k > id /\ SameRow(k, id)) => calls[k].field # calls[id].field

----------------------------------------------------------------------------
\* C1: once the failure response of an edit has been applied, the row shows
\* in the edited field the value it had right before the edit was issued,
\* and lastError is present and non-empty.
C1_FailureRestoresField ==
  \A id \in IssuedIds :
    LastEvent = <<"failure", id>> =>
      LET row == RowOf(calls[id].characterId)
      IN /\ row[calls[id].field] = PreEditValue(calls[id])
         /\ row.lastError # Null
         /\ row.lastError[1] # ""

\* C2: once the success response of an edit has been applied, the row shows
\* the submitted value in the edited field, lastError is absent and isSaving
\* is false. Stated for the edits that no later edit of the same field of
\* the same row follows, where no newer value can stand in the field.
C2_SuccessShowsSubmitted ==
  \A id \in IssuedIds :
    (LastEvent = <<"success", id>> /\ NewestOnField(id)) =>
      LET row == RowOf(calls[id].characterId)
      IN /\ row[calls[id].field] = calls[id].value
         /\ row.lastError = Null
         /\ ~row.isSaving

\* Edit a then edit b on different fields of one row, b issued before a's
\* response was applied, a failed and b succeeded, both responses applied,
\* and no third edit on either of the two fields of that row.
FailedThenSaved(a, b) ==
  /\ a < b
  /\ SameRow(a, b)
  /\ calls[a].field # calls[b].field
  /\ calls[a].stage = "failed"
  /\ calls[b].stage = "saved"
  /\ EventAt("issue", b) < EventAt("failure", a)
  /\ \A k \in IssuedIds \ {a, b} :
       SameRow(k, a) => calls[k].field \notin {calls[a].field, calls[b].field}

\* C3: edits A then B on different fields of a row, B issued while A is in
\* flight, A fails and B succeeds: after both responses, in either order,
\* the row shows B's value in B's field and A's pre-edit value in A's field.
C3_FailThenSucceedDifferentFields ==
  \A a \in IssuedIds : \A b \in IssuedIds :
    FailedThenSaved(a, b) =>
      LET row == RowOf(calls[a].characterId)
      IN /\ row[calls[b].field] = calls[b].value
         /\ row[calls[a].field] = PreEditValue(calls[a])

\* A's rollback is applied after B's commit: the order in which a rollback
\* of the whole row would undo B.
C3_Witness ==
  \E a \in IssuedIds : \E b \in IssuedIds :
    /\ FailedThenSaved(a, b)
    /\ EventAt("success", b) < EventAt("failure", a)

\* The flag shows one side of golden edit e and the timestamp the other.
MixedGolden(row, e) ==
  /\ e.field = "golden_goose"
  /\ PreEditTimestamp(e) # ComputedTimestamp(e)
  /\ \/ row.golden_goose = e.value
        /\ row.golden_started_at = PreEditTimestamp(e)
     \/ row.golden_goose = PreEditValue(e)
        /\ row.golden_started_at = ComputedTimestamp(e)

\* C4: whenever no edit is in flight for a row, golden_goose and
\* golden_started_at are not left with one at an edit's new value and the
\* other at that edit's rolled-back value.
C4_NoMixedGoldenState ==
  \A i \in 1..Len(rows) :
    (\A id \in IssuedIds : calls[id].characterId = rows[i].characterId => ~InFlight(id))
      => \A id \in IssuedIds :
           calls[id].characterId = rows[i].characterId
             => ~MixedGolden(rows[i], calls[id])

\* C5: isSaving of a row is true exactly while an upsert issued for its
\* entity has not had its response applied.
C5_SavingIffInFlight ==
  \A i \in 1..Len(rows) :
    rows[i].isSaving <=>
      \E id \in IssuedIds : calls[id].characterId = rows[i].characterId /\ InFlight(id)

\* The response of call id is applied in this step.
ResponseApplied(id) == InFlight(id) /\ calls'[id].stage \in {"saved", "failed"}

\* C6: edit a then edit b on the same field of the same row, b issued while
\* a is in flight: applying a's response never changes the field away from
\* b's optimistic value.
C6_StaleResponseKeepsNewerValue ==
  [][\A a \in IssuedIds : \A b \in IssuedIds :
       ( /\ a < b
         /\ SameRow(a, b)
         /\ calls[a].field = calls[b].field
         /\ InFlight(b)
         /\ ResponseApplied(a)
         /\ RowOf(calls[b].characterId)[calls[b].field] = calls[b].value )
       => FindRow(rows', calls[b].characterId)[1][calls[b].field] = calls[b].value]_vars

\* C7: an edit of golden_goose to Active sets golden_started_at to the
\* current instant and an edit to Inactive sets it to absent; an edit of
\* any other field leaves golden_started_at unchanged, when it is issued and
\* when its response is applied.
C7_TimestampFrame ==
  [][ /\ Len(calls') = Len(calls) + 1 =>
           LET call == calls'[Len(calls')]
           IN FindRow(rows', call.characterId)[1].golden_started_at =
                IF call.field = "golden_goose"
                THEN (IF call.value = "Active" THEN Some(clock) ELSE Null)
                ELSE RowOf(call.characterId).golden_started_at
      /\ \A id \in IssuedIds :
           (ResponseApplied(id) /\ calls[id].field # "golden_goose") =>
             FindRow(rows', calls[id].characterId)[1].golden_started_at =
               RowOf(calls[id].characterId).golden_started_at ]_vars

\* No edit issued after id targets golden_goose of the same row.
NoLaterGoldenEdit(id) ==
  \A k \in IssuedIds :
    (k > id /\ SameRow(k, id)) => calls[k].field # "golden_goose"

\* C8: from the issue of an edit until its response is applied the row
\* shows the new value in the edited field and the computed activation
\* timestamp, with isSaving true and lastError absent. Stated for the edits
\* that no later edit of the same field follows (and, for the timestamp, no
\* later edit of golden_goose), where no newer optimistic value can stand
\* in their place.
C8_OptimisticWhileInFlight ==
  \A id \in IssuedIds :
    (InFlight(id) /\ NewestOnField(id)) =>
      LET row == RowOf(calls[id].characterId)
      IN /\ row[calls[id].field] = calls[id].value
         /\ NoLaterGoldenEdit(id) =>
              row.golden_started_at = ComputedTimestamp(calls[id])
         /\ row.isSaving
         /\ row.lastError = Null

\* The payload carries the label in the column of the field: the label
\* itself in the handleValueChange variant, its stored encoding in the
\* upsertFor variant.
Carries(payload, key, label) ==
  IF variant = "handleValueChange" THEN key \in DOMAIN payload /\ payload[key] = label
  ELSE CASE key = "daily" -> payload.daily_status = Some(dailyLabelToDb(label))
         [] key = "wtp" -> payload.wtp = Some(wtpLabelToDb(label))
         [] key = "sdn_outskirts" -> payload.sdn_outskirts = Some(outskirtsLabelToDb(label))
         [] key = "sdn_core" -> payload.sdn_core = Some(coreLabelToDb(label))
         [] key = "golden_goose" -> payload.golden_active = Some(goldenLabelToDb(label))

\* The payload of the edit issued in this step carries the new value in the
\* edited field and, in every other field, what the row showed before.
CarriesFullRow(call, before) ==
  \A key \in FieldKeySet :
    Carries(call.payload, key, IF key = call.field THEN call.value ELSE before[key])

NormalisedTimestamp(call, now) ==
  IF call.next.golden_goose = "Active"
  THEN Some(Coalesce(ComputedTimestamp(call), now))
  ELSE Null

----------------------------------------------------------------------------
\* The "Expired Golden" cell

SecondsPerDay == 24 * 60 * 60

\* date-fns addDays in a zone without clock changes
addDays(date, amount) == date + amount * SecondsPerDay

\* date-fns isAfter
isAfter(date, dateToCompare) == date > dateToCompare

\* Index of the local calendar day of an instant
LocalDay(date, offset) == (date + offset) \div SecondsPerDay

\* date-fns differenceInCalendarDays: local calendar days from right to left
differenceInCalendarDays(dateLeft, dateRight, offset) ==
  LocalDay(dateLeft, offset) - LocalDay(dateRight, offset)

\* handleValueChange variant: isAfter(new Date(), addDays(goldenStarted, 7))
IsExpiredIsAfter(goldenStarted, renderedAt) ==
  isAfter(renderedAt, addDays(goldenStarted, 7))

\* upsertFor variant: differenceInCalendarDays(addDays(startedAt, 7), now) < 0
IsExpiredCalendar(started, renderedAt, offset) ==
  differenceInCalendarDays(addDays(started, 7), renderedAt, offset) < 0

\* Activation instants: the first and the last second of every hour of a day
SampleInstants == {h * 3600 + s : h \in 0..LastHour, s \in {0, 3599}}

\* UTC and WIB
TzOffsets == {0, 7 * 3600}

\* How long after the activation the row is rendered
RenderOffsets ==
  {0, 6 * SecondsPerDay, 7 * SecondsPerDay, 7 * SecondsPerDay + 1, 8 * SecondsPerDay}

InitExpiry ==
  /\ variant \in {"handleValueChange", "upsertFor"}
  /\ characters = Characters
  /\ states = <<>>
  /\ rows = (IF variant = "handleValueChange"
             THEN getInitialRows(characters, states)
             ELSE initialRowsDb(characters, states))
  /\ calls = <<>>
  /\ store = states
  /\ clock = 1
  /\ history = <<>>
  /\ startedAt \in SampleInstants
  /\ tz \in TzOffsets
  /\ renderNow = startedAt
  /\ isExpired = FALSE
  /\ CsvIdle
  /\ LogIdle
  /\ ResetIdle

\* A render of the row whose golden_started_at is startedAt, offset seconds
\* after the activation.
RenderRow(offset) ==
  /\ renderNow' = startedAt + offset
  /\ isExpired' = IF variant = "handleValueChange"
                  THEN IsExpiredIsAfter(startedAt, renderNow')
                  ELSE IsExpiredCalendar(startedAt, renderNow', tz)
  /\ UNCHANGED <<dashVars, startedAt, tz, csvVars, logVars, resetVars>>

NextExpiry == \E offset \in RenderOffsets : RenderRow(offset)

SpecExpiry == InitExpiry /\ [][NextExpiry]_vars

\* C10: for a flag activated at instant T the expiry check reports expired
\* when evaluated at T + 7 days + 1 second and not expired when evaluated at
\* T + 6 days, for every T.
C10_ExpiryAfterSevenDays ==
  /\ renderNow = startedAt + 7 * SecondsPerDay + 1 => isExpired
  /\ renderNow = startedAt + 6 * SecondsPerDay => ~isExpired

----
\* The CSV functions of the log viewer and of the export route.
\*
\* A text is a sequence of tokens; a token is one character, or a column name
\* (a run of characters holding no comma, double quote or line break).  A row
\* of history_log is the sequence of its own properties in the order the
\* object holds them, each a key and a value; a value is a text, or Null for
\* null.  The rows come from the remote store as JSON, so no value is a Date.

\* Largest number of rows handed to orderColumns and toCsv.
MaxRows == 2

\* Longest cell text handed to escapeCsvValue.
MaxLen == 3

\* The dashboard not mounted.
DashIdle ==
  /\ variant = "handleValueChange"
  /\ characters = <<>>
  /\ states = <<>>
  /\ rows = <<>>
  /\ calls = <<>>
  /\ store = <<>>
  /\ clock = 1
  /\ history = <<>>

PREFERRED_ORDER ==
  <<"created_at", "character_name", "character_id", "action", "details", "notes">>

\* The column names of the model in the order localeCompare puts them.
CollationOrder ==
  <<"action", "character_id", "character_name", "created_at", "details",
    "id", "notes", "user_id">>

\* Array.prototype.indexOf: the first position of x in s counted from 0, and
\* -1 when s does not hold it.
indexOf(s, x) ==
  IF \E i \in 1..Len(s) : s[i] = x
  THEN (CHOOSE i \in 1..Len(s) : s[i] = x /\ \A j \in 1..(i - 1) : s[j] # x) - 1
  ELSE -1

\* String.prototype.localeCompare: negative, zero or positive.
localeCompare(a, b) ==
  LET ia == indexOf(CollationOrder, a)
      ib == indexOf(CollationOrder, b)
  IN IF ia < ib THEN -1 ELSE IF ia > ib THEN 1 ELSE 0

\* The keys of a row in the order Object.keys lists them.
ObjectKeys(row) == [i \in 1..Len(row) |-> row[i].key]

\* row[column]: the value under the key, Null when the row has no such key.
Lookup(row, column) ==
  IF \E i \in 1..Len(row) : row[i].key = column
  THEN row[CHOOSE i \in 1..Len(row) : row[i].key = column].value
  ELSE Null

\* Set.prototype.add on a Set kept in insertion order.
SetAdd(columns, key) ==
  IF \E i \in 1..Len(columns) : columns[i] = key
  THEN columns
  ELSE Append(columns, key)

RECURSIVE AddKeys(_, _)
\* forEach(key => columns.add(key)) over the keys of one row.
AddKeys(columns, keys) ==
  IF keys = <<>>
  THEN columns
  ELSE AddKeys(SetAdd(columns, Head(keys)), Tail(keys))

RECURSIVE collectColumns(_)
\* The names of all properties of all rows, each once, in the order of their
\* first appearance.  Defined on the rows in reverse so that the recursion
\* adds the keys of the first row first.
collectColumns(rs) ==
  IF rs = <<>>
  THEN <<>>
  ELSE AddKeys(collectColumns(SubSeq(rs, 1, Len(rs) - 1)),
               ObjectKeys(rs[Len(rs)]))

\* The comparator orderColumns hands to sort, without its alphabetical branch:
\* two names outside the preference list compare equal.
compareColumns_NoAlphabetical(a, b) ==
  LET indexA == indexOf(PREFERRED_ORDER, a)
      indexB == indexOf(PREFERRED_ORDER, b)
  IN IF indexA = -1 /\ indexB = -1 THEN 0
     ELSE IF indexA = -1 THEN 1
     ELSE IF indexB = -1 THEN -1
     ELSE indexA - indexB

\* The comparator orderColumns hands to sort.
compareColumns(a, b) ==
  LET indexA == indexOf(PREFERRED_ORDER, a)
      indexB == indexOf(PREFERRED_ORDER, b)
  IN IF indexA = -1 /\ indexB = -1 THEN localeCompare(a, b)
     ELSE IF indexA = -1 THEN 1
     ELSE IF indexB = -1 THEN -1
     ELSE indexA - indexB

\* One step of a stable insertion sort: x goes after every element of the
\* sorted sequence that does not compare greater than it.
InsertSorted(sorted, x) ==
  LET after == {i \in 1..Len(sorted) : compareColumns(sorted[i], x) > 0}
      at == IF after = {} THEN Len(sorted) + 1
            ELSE CHOOSE i \in after : \A j \in after : i <= j
  IN SubSeq(sorted, 1, at - 1) \o <<x>> \o SubSeq(sorted, at, Len(sorted))

RECURSIVE sort(_)
\* Array.prototype.sort with compareColumns: a stable sort.
sort(s) ==
  IF s = <<>>
  THEN <<>>
  ELSE InsertSorted(sort(SubSeq(s, 1, Len(s) - 1)), s[Len(s)])

RECURSIVE seen(_)
\* The Set orderColumns fills: every key of every row, each once, in the
\* order of first appearance.
seen(rs) ==
  IF rs = <<>>
  THEN <<>>
  ELSE AddKeys(seen(SubSeq(rs, 1, Len(rs) - 1)), ObjectKeys(rs[Len(rs)]))

\* orderColumns of the log viewer.
orderColumns(rs) == sort(seen(rs))

RECURSIVE replaceQuotes(_)
\* str.replace(/"/g, '""').
replaceQuotes(str) ==
  IF str = <<>>
  THEN <<>>
  ELSE (IF Head(str) = "\"" THEN <<"\"", "\"">> ELSE <<Head(str)>>)
       \o replaceQuotes(Tail(str))

\* /[",\n]/.test(str).
NeedsQuotes(str) == \E i \in 1..Len(str) : str[i] \in {"\"", ",", "\n"}

\* escapeCsvValue of the export route with a test that misses the line break.
escapeCsvValue_NoLineBreak(value) ==
  IF value = Null
  THEN <<>>
  ELSE LET str == value[1]
           escaped == replaceQuotes(str)
       IN IF \E i \in 1..Len(str) : str[i] \in {"\"", ","}
          THEN <<"\"">> \o escaped \o <<"\"">>
          ELSE escaped

\* escapeCsvValue of the export route.
escapeCsvValue(value) ==
  IF value = Null
  THEN <<>>
  ELSE LET str == value[1]
           escaped == replaceQuotes(str)
       IN IF NeedsQuotes(str)
          THEN <<"\"">> \o escaped \o <<"\"">>
          ELSE escaped

RECURSIVE join(_, _)
\* Array.prototype.join over texts.
join(texts, separator) ==
  IF texts = <<>> THEN <<>>
  ELSE IF Len(texts) = 1 THEN texts[1]
  ELSE texts[1] \o separator \o join(Tail(texts), separator)

\* toCsv of the export route.
toCsv(rs) ==
  IF Len(rs) = 0
  THEN <<>>
  ELSE LET columns == collectColumns(rs)
           header == join([i \in 1..Len(columns) |-> <<columns[i]>>], <<",">>)
           line(row) ==
             join([i \in 1..Len(columns) |->
                     escapeCsvValue(Lookup(row, columns[i]))], <<",">>)
       IN join(<<header>> \o [i \in 1..Len(rs) |-> line(rs[i])],
               <<"\r", "\n">>)

\* The rows the functions are applied to.
SampleRows ==
  { << [key |-> "id", value |-> Some(<<"7">>)],
       [key |-> "created_at", value |-> Some(<<"d">>)],
       [key |-> "action", value |-> Some(<<"a", ",", "b">>)] >>,
    << [key |-> "created_at", value |-> Some(<<"e">>)],
       [key |-> "notes", value |-> Null],
       [key |-> "user_id", value |-> Some(<<"u">>)] >>,
    << [key |-> "user_id", value |-> Some(<<"u">>)],
       [key |-> "id", value |-> Some(<<"8">>)] >>,
    << [key |-> "details", value |-> Some(<<"\"", "x", "\"">>)],
       [key |-> "action", value |-> Some(<<"r", "\n">>)] >>,
    << [key |-> "notes", value |-> Some(<<"n">>)],
       [key |-> "character_name", value |-> Some(<<"k">>)],
       [key |-> "created_at", value |-> Null] >> }

RECURSIVE SeqsUpTo(_, _)
\* The sequences over S of length at most n.
SeqsUpTo(S, n) ==
  IF n = 0
  THEN {<<>>}
  ELSE LET shorter == SeqsUpTo(S, n - 1)
       IN shorter \cup {Append(s, x) : s \in shorter, x \in S}

\* The characters of the cell texts.
CellCharacters == {"a", ",", "\"", "\n", "\r"}

InitCsv ==
  /\ DashIdle
  /\ ExpiryIdle
  /\ LogIdle
  /\ ResetIdle
  /\ csvOut = [op |-> "none"]
  /\ \/ /\ csvRows \in SeqsUpTo(SampleRows, MaxRows)
        /\ csvValue = Null
     \/ /\ csvRows = <<>>
        /\ csvValue \in {Some(str) : str \in SeqsUpTo(CellCharacters, MaxLen)}

\* The viewer computes the columns of its table.
OrderColumns ==
  /\ csvOut' = [op |-> "orderColumns", result |-> orderColumns(csvRows)]
  /\ UNCHANGED <<dashVars, expiryVars, logVars, resetVars, csvRows, csvValue>>

\* The export route renders the rows it read.
ToCsv ==
  /\ csvOut' = [op |-> "toCsv", result |-> toCsv(csvRows)]
  /\ UNCHANGED <<dashVars, expiryVars, logVars, resetVars, csvRows, csvValue>>

\* The export route renders one cell.
EscapeCsvValue ==
  /\ csvOut' = [op |-> "escapeCsvValue", result |-> escapeCsvValue(csvValue)]
  /\ UNCHANGED <<dashVars, expiryVars, logVars, resetVars, csvRows, csvValue>>

NextCsv ==
  \/ OrderColumns
  \/ ToCsv
  \/ EscapeCsvValue

SpecCsv == InitCsv /\ [][NextCsv]_vars

----
\* Claims about the CSV functions.

\* The names of the properties of the rows.
FieldNames(rs) ==
  UNION {{rs[i][j].key : j \in 1..Len(rs[i])} : i \in 1..Len(rs)}

\* The rows in the order given by a permutation of their positions.
Permuted(rs, p) == [i \in 1..Len(rs) |-> rs[p[i]]]

InPreferred(name) == \E i \in 1..Len(PREFERRED_ORDER) : PREFERRED_ORDER[i] = name

\* Name a is to stand before name b: both on the preference list and a
\* earlier on it, or only a on it, or neither on it and a alphabetically
\* before b.
StandsBefore(a, b) ==
  LET pa == CHOOSE i \in 1..Len(PREFERRED_ORDER) : PREFERRED_ORDER[i] = a
      pb == CHOOSE i \in 1..Len(PREFERRED_ORDER) : PREFERRED_ORDER[i] = b
      ca == CHOOSE i \in 1..Len(CollationOrder) : CollationOrder[i] = a
      cb == CHOOSE i \in 1..Len(CollationOrder) : CollationOrder[i] = b
  IN IF InPreferred(a) /\ InPreferred(b) THEN pa < pb
     ELSE IF InPreferred(a) THEN TRUE
     ELSE IF InPreferred(b) THEN FALSE
     ELSE ca < cb

\* C13: orderColumns returns the union of the field names of the rows, each
\* name once, the names of the preference list first in list order and all
\* other names after them in alphabetical order; the rows in any other order
\* give the same result.
C13_OrderColumnsCanonical ==
  csvOut.op = "orderColumns" =>
    LET result == csvOut.result
    IN /\ {result[i] : i \in 1..Len(result)} = FieldNames(csvRows)
       /\ \A i, j \in 1..Len(result) : i < j => StandsBefore(result[i], result[j])
       /\ \A p \in Permutations(1..Len(csvRows)) :
            orderColumns(Permuted(csvRows, p)) = result

\* orderColumns applied to two rows that hold names on and off the preference
\* list, the names off it first appearing in non-alphabetical order.
C13_Witness ==
  /\ csvOut.op = "orderColumns"
  /\ Len(csvRows) = 2
  /\ \E i, j \in 1..Len(csvOut.result) :
       /\ InPreferred(csvOut.result[i])
       /\ ~InPreferred(csvOut.result[j])
  /\ LET first == collectColumns(csvRows)
     IN \E i, j \in 1..Len(first) :
          /\ i < j
          /\ ~InPreferred(first[i])
          /\ ~InPreferred(first[j])
          /\ StandsBefore(first[j], first[i])

\* The header line of the claimed CSV text: the names in orderColumns order.
ClaimedHeader(rs) ==
  LET columns == orderColumns(rs)
  IN join([i \in 1..Len(columns) |-> <<columns[i]>>], <<",">>)

\* The line of one row in the claimed CSV text: one cell per column of the
\* header, empty where the row has no value.
ClaimedLine(rs, row) ==
  LET columns == orderColumns(rs)
  IN join([i \in 1..Len(columns) |->
             IF Lookup(row, columns[i]) = Null
             THEN <<>>
             ELSE escapeCsvValue(Lookup(row, columns[i]))], <<",">>)

\* C14: the CSV text is the header line of the column names in orderColumns
\* order followed by one line per row in the order of the rows, each line
\* with one cell per header column, empty where the row has no value or null.
C14_CsvFollowsOrderColumns ==
  csvOut.op = "toCsv" =>
    csvOut.result =
      join(<<ClaimedHeader(csvRows)>>
             \o [i \in 1..Len(csvRows) |-> ClaimedLine(csvRows, csvRows[i])],
           <<"\r", "\n">>)

\* The text, the number of double quotes among its first n characters.
QuotesBefore(str, n) == Cardinality({i \in 1..n : str[i] = "\""})

\* The text wrapped in double quotes with every double quote of it doubled:
\* character i of the text stands after the opening quote and after one more
\* character for each double quote before it, and is followed by a second
\* double quote when it is one.
IsQuoted(out, str) ==
  /\ Len(out) = Len(str) + QuotesBefore(str, Len(str)) + 2
  /\ out[1] = "\""
  /\ out[Len(out)] = "\""
  /\ \A i \in 1..Len(str) :
       LET at == 1 + i + QuotesBefore(str, i - 1)
       IN /\ out[at] = str[i]
          /\ str[i] = "\"" => out[at + 1] = "\""

HeSaidHi ==
  <<"H", "e", " ", "s", "a", "i", "d", " ", "\"", "h", "i", "\"", ",", " ",
    "o", "k">>

HeSaidHiEscaped ==
  <<"\"", "H", "e", " ", "s", "a", "i", "d", " ", "\"", "\"", "h", "i", "\"",
    "\"", ",", " ", "o", "k", "\"">>

\* C15: escapeCsvValue returns the text wrapped in double quotes, its double
\* quotes doubled, exactly when the text holds a comma, a double quote or a
\* newline, and the text unchanged otherwise; He said "hi", ok becomes
\* "He said ""hi"", ok".
C15_EscapeCsvValue ==
  /\ escapeCsvValue(Some(HeSaidHi)) = HeSaidHiEscaped
  /\ (csvOut.op = "escapeCsvValue" /\ csvValue # Null) =>
       LET str == csvValue[1]
       IN IF \E i \in 1..Len(str) : str[i] = "," \/ str[i] = "\"" \/ str[i] = "\n"
          THEN IsQuoted(csvOut.result, str)
          ELSE csvOut.result = str

\* escapeCsvValue applied to a text holding a double quote and a newline.
C15_Witness ==
  /\ csvOut.op = "escapeCsvValue"
  /\ csvValue # Null
  /\ \E i, j \in 1..Len(csvValue[1]) :
       /\ csvValue[1][i] = "\""
       /\ csvValue[1][j] = "\n"
  /\ Len(csvOut.result) = Len(csvValue[1]) + 3

----
\* The HistoryLogViewer and the export route GET /api/export.
\*
\* The text of a date input or of a start/end parameter is empty, a date
\* yyyy-MM-dd (by its day number) or malformed.  A Date is its instant in
\* ticks, Null for an Invalid Date.  The viewer and the route run in the same
\* time zone.  history_log does not change while the page is open.

\* Largest number of runs of the load effect, the one at mount included.
MaxLoads == 2

\* Largest number of runs of handleExport.
MaxExports == 1

\* Largest number of requests to the export route from other clients.
MaxDirect == 1

EmptyText == [kind |-> "empty", day |-> 0]

MalformedText == [kind |-> "malformed", day |-> 0]

DateText(d) == [kind |-> "date", day |-> d]

\* The values a date input can hold.
InputTexts == {EmptyText, DateText(1), DateText(2), DateText(3)}

\* The values a start or end parameter of a request can hold.
ParamTexts == InputTexts \cup {MalformedText}

INVALID_RANGE == "Rentang tanggal tidak valid."

CSV_FAILED == "Gagal membuat CSV."

FETCH_REJECTED == "Failed to fetch"

\* The messages of the errors the remote read of history_log returns.
ReadErrors == {"history_log read failed"}

\* parseISO: the instant of local midnight of the day, Null (Invalid Date)
\* for a text that is no date.
parseISO(value) ==
  IF value.kind = "date" THEN Some(value.day * DayTicks) ELSE Null

isValid(parsed) == parsed # Null

startOfDay(date) == Some((date[1] \div DayTicks) * DayTicks)

endOfDay(date) == Some((date[1] \div DayTicks) * DayTicks + DayTicks - 1)

\* normaliseDateInput of the viewer: the Date of the text, Null for an empty
\* or malformed text.
normaliseDateInput(value) ==
  IF value.kind = "empty"
  THEN Null
  ELSE LET parsed == parseISO(value)
       IN IF ~isValid(parsed) THEN Null ELSE parsed

\* The test of load and of handleExport with its operands exchanged.
InvalidRange_Exchanged(start, end) ==
  start # Null /\ end # Null /\ end[1] > start[1]

\* start && end && start > end.
InvalidRange(start, end) ==
  start # Null /\ end # Null /\ start[1] > end[1]

\* The rows of history_log with the instant of their created_at.
HistoryLog ==
  { [created_at |-> 1 * DayTicks,
     row |-> << [key |-> "id", value |-> Some(<<"1">>)],
                [key |-> "created_at", value |-> Some(<<"d">>)],
                [key |-> "action", value |-> Some(<<"a", ",", "b">>)] >>],
    [created_at |-> 2 * DayTicks + 1,
     row |-> << [key |-> "id", value |-> Some(<<"2">>)],
                [key |-> "created_at", value |-> Some(<<"e">>)],
                [key |-> "notes", value |-> Null] >>],
    [created_at |-> 3 * DayTicks,
     row |-> << [key |-> "created_at", value |-> Some(<<"f">>)],
                [key |-> "id", value |-> Some(<<"3">>)] >>] }

RECURSIVE Descending(_)
\* .order('created_at', { ascending: false }).
Descending(entries) ==
  IF entries = {}
  THEN <<>>
  ELSE LET latest == CHOOSE e \in entries :
                       \A f \in entries : f.created_at <= e.created_at
       IN <<latest.row>> \o Descending(entries \ {latest})

\* select('*') from history_log with the gte and lte filters that are set,
\* newest first.
SelectHistoryLog(gte, lte) ==
  Descending({e \in HistoryLog :
                /\ gte # Null => e.created_at >= gte[1]
                /\ lte # Null => e.created_at <= lte[1]})

\* The query load builds for a range.
LoadQueryData(start, end) ==
  SelectHistoryLog(IF start # Null THEN startOfDay(start) ELSE Null,
                   IF end # Null THEN endOfDay(end) ELSE Null)

\* The run of load that a render with the range (start, end) starts: the
\* cleanup of the effect before it has set cancelled, and load runs up to its
\* early return or its await.
RunEffect(start, end) ==
  LET s == normaliseDateInput(start)
      e == normaliseDateInput(end)
      invalid == InvalidRange(s, e)
      cleaned == [k \in 1..Len(loads) |-> [loads[k] EXCEPT !.cancelled = TRUE]]
  IN /\ loads' = Append(cleaned,
                        [start |-> start, end |-> end, cancelled |-> FALSE,
                         stage |-> IF invalid THEN "invalid" ELSE "query",
                         data |-> <<>>, fetchError |-> Null])
     /\ loading' = ~invalid
     /\ pageError' = (IF invalid THEN Some(INVALID_RANGE) ELSE Null)
     /\ logRows' = (IF invalid THEN <<>> ELSE logRows)

\* The state after mount: the last seven days, and the first load awaiting
\* its rows.
InitLog ==
  /\ DashIdle
  /\ ExpiryIdle
  /\ CsvIdle
  /\ ResetIdle
  /\ startDate = DateText(2)
  /\ endDate = DateText(3)
  /\ logRows = <<>>
  /\ loading = TRUE
  /\ pageError = Null
  /\ exporting = FALSE
  /\ loads = << [start |-> startDate, end |-> endDate, cancelled |-> FALSE,
                 stage |-> "query", data |-> <<>>, fetchError |-> Null] >>
  /\ exports = <<>>
  /\ downloads = <<>>

\* The user picks another start date.
SetStartDate(value) ==
  /\ Len(loads) < MaxLoads
  /\ value # startDate
  /\ startDate' = value
  /\ RunEffect(value, endDate)
  /\ UNCHANGED <<dashVars, expiryVars, csvVars, resetVars,
                 endDate, exporting, exports, downloads>>

\* The user picks another end date.
SetEndDate(value) ==
  /\ Len(loads) < MaxLoads
  /\ value # endDate
  /\ endDate' = value
  /\ RunEffect(startDate, value)
  /\ UNCHANGED <<dashVars, expiryVars, csvVars, resetVars,
                 startDate, exporting, exports, downloads>>

\* The remote store answers the query of load k, with rows or with an error.
LoadQuery(k, fetchError) ==
  /\ k \in 1..Len(loads)
  /\ loads[k].stage = "query"
  /\ loads' = [loads EXCEPT ![k] =
       [@ EXCEPT !.stage = "answered",
                 !.fetchError = fetchError,
                 !.data = IF fetchError = Null
                          THEN LoadQueryData(normaliseDateInput(loads[k].start),
                                             normaliseDateInput(loads[k].end))
                          ELSE <<>>]]
  /\ UNCHANGED <<dashVars, expiryVars, csvVars, resetVars,
                 startDate, endDate, logRows, loading, pageError, exporting,
                 exports, downloads>>

\* The cancelled flag of the effect run that started load k, never set.
IsCancelled_Never(k) == FALSE

\* The cancelled flag of the effect run that started load k.
IsCancelled(k) == loads[k].cancelled

\* Load k continues after its await.
LoadResume(k) ==
  /\ k \in 1..Len(loads)
  /\ loads[k].stage = "answered"
  /\ IF IsCancelled(k)
     THEN /\ loads' = [loads EXCEPT ![k].stage = "dropped"]
          /\ UNCHANGED <<logRows, loading, pageError>>
     ELSE /\ loads' = [loads EXCEPT ![k].stage = "applied"]
          /\ IF loads[k].fetchError # Null
             THEN /\ pageError' = loads[k].fetchError
                  /\ logRows' = <<>>
             ELSE /\ logRows' = loads[k].data
                  /\ UNCHANGED pageError
          /\ loading' = FALSE
  /\ UNCHANGED <<dashVars, expiryVars, csvVars, resetVars,
                 startDate, endDate, exporting, exports, downloads>>

\* The runs of handleExport and the requests of other clients so far.
FromOrigin(origin) == {j \in 1..Len(exports) : exports[j].origin = origin}

\* The user clicks the export button, which is disabled while exporting:
\* handleExport up to its early return or its await of fetch.
HandleExport ==
  /\ Cardinality(FromOrigin("client")) < MaxExports
  /\ ~exporting
  /\ LET invalid == InvalidRange(normaliseDateInput(startDate),
                                 normaliseDateInput(endDate))
     IN /\ exports' = Append(exports,
                             [origin |-> "client",
                              start |-> startDate, end |-> endDate,
                              stage |-> IF invalid THEN "invalid" ELSE "request",
                              readError |-> Null, response |-> Null])
        /\ exporting' = ~invalid
        /\ pageError' = (IF invalid THEN Some(INVALID_RANGE) ELSE Null)
  /\ UNCHANGED <<dashVars, expiryVars, csvVars, resetVars,
                 startDate, endDate, logRows, loading, loads, downloads>>

\* Some other client requests /api/export with parameters of its choice.
DirectExport(start, end) ==
  /\ Cardinality(FromOrigin("direct")) < MaxDirect
  /\ exports' = Append(exports,
                       [origin |-> "direct", start |-> start, end |-> end,
                        stage |-> "request", readError |-> Null,
                        response |-> Null])
  /\ UNCHANGED <<dashVars, expiryVars, csvVars, resetVars,
                 startDate, endDate, logRows, loading, pageError, exporting,
                 loads, downloads>>

\* parseDateParam of the route: Null for undefined; "throw" stands for the
\* thrown Error.
parseDateParam(value, boundary) ==
  IF value.kind = "empty"
  THEN [throw |-> FALSE, date |-> Null]
  ELSE LET parsed == parseISO(value)
       IN IF ~isValid(parsed)
          THEN [throw |-> TRUE, date |-> Null]
          ELSE [throw |-> FALSE,
                date |-> IF boundary = "start" THEN startOfDay(parsed)
                         ELSE endOfDay(parsed)]

\* The message of the Error parseDateParam throws.
InvalidDateMessage(boundary) ==
  IF boundary = "start" THEN "Invalid start date. Expected ISO format."
  ELSE "Invalid end date. Expected ISO format."

\* GET answering a failed read with an empty CSV document.
GET_ErrorAsCsv(startParam, endParam, readError) ==
  LET start == parseDateParam(startParam, "start")
      end == parseDateParam(endParam, "end")
  IN IF start.throw
     THEN [status |-> 400, type |-> "json", read |-> FALSE,
           error |-> Some(InvalidDateMessage("start")), csv |-> <<>>]
     ELSE IF end.throw
     THEN [status |-> 400, type |-> "json", read |-> FALSE,
           error |-> Some(InvalidDateMessage("end")), csv |-> <<>>]
     ELSE IF readError # Null
     THEN [status |-> 200, type |-> "csv", read |-> TRUE,
           error |-> Null, csv |-> <<>>]
     ELSE LET rs == SelectHistoryLog(start.date, end.date)
          IN [status |-> 200, type |-> "csv", read |-> TRUE, error |-> Null,
              csv |-> IF Len(rs) # 0 THEN toCsv(rs) ELSE <<>>]

\* GET of the export route: the response to a request, with whether the
\* route issued its read of history_log; readError is the error that read
\* returns, Null for none.
GET(startParam, endParam, readError) ==
  LET start == parseDateParam(startParam, "start")
      end == parseDateParam(endParam, "end")
  IN IF start.throw
     THEN [status |-> 400, type |-> "json", read |-> FALSE,
           error |-> Some(InvalidDateMessage("start")), csv |-> <<>>]
     ELSE IF end.throw
     THEN [status |-> 400, type |-> "json", read |-> FALSE,
           error |-> Some(InvalidDateMessage("end")), csv |-> <<>>]
     ELSE IF readError # Null
     THEN [status |-> 500, type |-> "json", read |-> TRUE,
           error |-> readError, csv |-> <<>>]
     ELSE LET rs == SelectHistoryLog(start.date, end.date)
          IN [status |-> 200, type |-> "csv", read |-> TRUE, error |-> Null,
              csv |-> IF Len(rs) # 0 THEN toCsv(rs) ELSE <<>>]

\* The route answers request j; readError is what its read of history_log
\* returns if the route issues it.
ExportGET(j, readError) ==
  /\ j \in 1..Len(exports)
  /\ exports[j].stage = "request"
  /\ LET response == GET(exports[j].start, exports[j].end, readError)
     IN exports' = [exports EXCEPT ![j] =
          [@ EXCEPT !.stage = "response",
                    !.readError = IF response.read THEN readError ELSE Null,
                    !.response = Some(response)]]
  /\ UNCHANGED <<dashVars, expiryVars, csvVars, resetVars,
                 startDate, endDate, logRows, loading, pageError, exporting,
                 loads, downloads>>

\* The fetch of request j of the page rejects: no response arrives.
ExportFetchRejects(j) ==
  /\ j \in 1..Len(exports)
  /\ exports[j].stage = "request"
  /\ exports[j].origin = "client"
  /\ exports' = [exports EXCEPT ![j].stage = "rejected"]
  /\ UNCHANGED <<dashVars, expiryVars, csvVars, resetVars,
                 startDate, endDate, logRows, loading, pageError, exporting,
                 loads, downloads>>

\* response.ok.
ResponseOk(response) == response.status >= 200 /\ response.status <= 299

\* handleExport continues after its await of fetch.
HandleExportResume(j) ==
  /\ j \in 1..Len(exports)
  /\ exports[j].origin = "client"
  /\ exports[j].stage \in {"response", "rejected"}
  /\ exports' = [exports EXCEPT ![j].stage = "done"]
  /\ IF exports[j].stage = "rejected"
     THEN /\ pageError' = Some(FETCH_REJECTED)
          /\ UNCHANGED downloads
     ELSE IF ~ResponseOk(exports[j].response[1])
     THEN /\ pageError' = Some(CSV_FAILED)
          /\ UNCHANGED downloads
     ELSE /\ downloads' = Append(downloads, exports[j].response[1].csv)
          /\ UNCHANGED pageError
  /\ exporting' = FALSE
  /\ UNCHANGED <<dashVars, expiryVars, csvVars, resetVars,
                 startDate, endDate, logRows, loading, loads>>

LoadIds == 1..MaxLoads

ExportIds == 1..(MaxExports + MaxDirect)

NextLog ==
  \/ \E value \in InputTexts : SetStartDate(value)
  \/ \E value \in InputTexts : SetEndDate(value)
  \/ \E k \in LoadIds, m \in ReadErrors : LoadQuery(k, Some(m))
  \/ \E k \in LoadIds : LoadQuery(k, Null)
  \/ \E k \in LoadIds : LoadResume(k)
  \/ HandleExport
  \/ \E j \in ExportIds, m \in ReadErrors : ExportGET(j, Some(m))
  \/ \E j \in ExportIds : ExportGET(j, Null)
  \/ \E j \in ExportIds : ExportFetchRejects(j)
  \/ \E j \in ExportIds : HandleExportResume(j)

SpecLog == InitLog /\ [][NextLog]_vars

\* The export route open to every client, and the page at the range it was
\* mounted with, its first load still awaiting its rows.
NextExport ==
  \/ HandleExport
  \/ \E start, end \in ParamTexts : DirectExport(start, end)
  \/ \E j \in ExportIds, m \in ReadErrors : ExportGET(j, Some(m))
  \/ \E j \in ExportIds : ExportGET(j, Null)
  \/ \E j \in ExportIds : ExportFetchRejects(j)
  \/ \E j \in ExportIds : HandleExportResume(j)

SpecExport == InitLog /\ [][NextExport]_vars

----
\* Claims about the log viewer and the export route.

\* Both texts are dates and the start date is after the end date.
Reversed(start, end) ==
  start.kind = "date" /\ end.kind = "date" /\ start.day > end.day

\* The step starts a run of load.
LoadStarts == Len(loads') = Len(loads) + 1

\* The step is a run of handleExport up to its return or its await.
ExportStarts ==
  /\ Len(exports') = Len(exports) + 1
  /\ exports'[Len(exports')].origin = "client"

\* C11: with both dates present and the start date after the end date, load
\* issues no query, sets the page error to the invalid-range message, clears
\* the rows and leaves loading false; handleExport issues no request, sets the
\* same page error and leaves exporting false; no run of either for such a
\* range ever has a remote call.
C11_InvalidRangeNoRemoteCall ==
  [][/\ (LoadStarts /\ Reversed(startDate', endDate')) =>
          /\ loads'[Len(loads')].stage = "invalid"
          /\ pageError' = Some(INVALID_RANGE)
          /\ logRows' = <<>>
          /\ loading' = FALSE
     /\ (ExportStarts /\ Reversed(startDate, endDate)) =>
          /\ exports'[Len(exports')].stage = "invalid"
          /\ pageError' = Some(INVALID_RANGE)
          /\ exporting' = FALSE
          /\ downloads' = downloads
     /\ \A k \in 1..Len(loads') :
          Reversed(loads'[k].start, loads'[k].end) => loads'[k].stage = "invalid"
     /\ \A j \in 1..Len(exports') :
          (exports'[j].origin = "client"
             /\ Reversed(exports'[j].start, exports'[j].end))
            => exports'[j].stage = "invalid" /\ exports'[j].response = Null
    ]_vars

\* Both load and handleExport have run for a range whose start date is after
\* its end date.
C11_Witness ==
  /\ Reversed(startDate, endDate)
  /\ loads[Len(loads)].stage = "invalid"
  /\ exports # <<>>
  /\ exports[Len(exports)].stage = "invalid"
  /\ pageError = Some(INVALID_RANGE)
  /\ ~loading
  /\ ~exporting

\* C12: the export route rejects a request whose start date is after its end
\* date with an error status and issues no read of history_log for it.
C12_ExportRejectsReversedRange ==
  \A j \in 1..Len(exports) :
    (exports[j].response # Null /\ Reversed(exports[j].start, exports[j].end))
      => /\ exports[j].response[1].status >= 400
         /\ ~exports[j].response[1].read

\* Request j carries a start or end parameter that is no date.
MalformedParam(j) ==
  exports[j].start.kind = "malformed" \/ exports[j].end.kind = "malformed"

\* The step is the continuation of run j of handleExport after its await.
ExportResumes(j) ==
  /\ j <= Len(exports)
  /\ exports[j].stage = "response"
  /\ exports'[j].stage = "done"

\* C16: to a request with an invalid date parameter, and to one whose read of
\* history_log returned an error, the route answers with an error status and
\* a message, never with a CSV document; handleExport on a response that is
\* not ok sets the page error, downloads nothing and leaves exporting false.
C16_ExportAllOrNothing ==
  [][/\ \A j \in 1..Len(exports') :
          (exports'[j].response # Null
             /\ (MalformedParam(j)' \/ exports'[j].readError # Null))
            => /\ exports'[j].response[1].status >= 400
               /\ exports'[j].response[1].type = "json"
               /\ exports'[j].response[1].error # Null
               /\ exports'[j].response[1].csv = <<>>
     /\ \A j \in ExportIds :
          (ExportResumes(j) /\ exports[j].response[1].status >= 400)
            => /\ pageError' = Some(CSV_FAILED)
               /\ downloads' = downloads
               /\ exporting' = FALSE
    ]_vars

\* The route has refused a request with a malformed date, and handleExport
\* has finished on the response to a read that failed.
C16_Witness ==
  /\ \E j \in 1..Len(exports) :
       /\ MalformedParam(j)
       /\ exports[j].response # Null
       /\ exports[j].response[1].status = 400
  /\ \E j \in 1..Len(exports) :
       /\ exports[j].origin = "client"
       /\ exports[j].stage = "done"
       /\ exports[j].readError # Null
       /\ exports[j].response[1].status = 500
  /\ pageError = Some(CSV_FAILED)
  /\ downloads = <<>>
  /\ ~exporting

\* The run of load for the range the page shows now.
LatestLoad == loads[Len(loads)]

\* The run has returned: at its range check, or after applying its response.
LoadFinished(load) == load.stage \in {"invalid", "applied"}

\* The rows a finished run of load leaves on the page.
RowsOfLoad(load) ==
  IF load.stage = "applied" /\ load.fetchError = Null THEN load.data ELSE <<>>

\* The step is the continuation of run k of load after its await.
LoadResumes(k) ==
  /\ k <= Len(loads)
  /\ loads[k].stage = "answered"
  /\ loads'[k].stage # "answered"

\* C18: the response to a fetch for a superseded date range is never applied;
\* the rows shown and the fetch error come from the load for the latest
\* (startDate, endDate), and loading is false exactly once that load has
\* finished.
C18_OnlyLatestLoadApplied ==
  [][/\ \A k \in LoadIds :
          (LoadResumes(k) /\ k < Len(loads))
            => UNCHANGED <<logRows, loading, pageError>>
     /\ LatestLoad'.start = startDate' /\ LatestLoad'.end = endDate'
     /\ loading' = ~LoadFinished(LatestLoad')
     /\ ~loading' => logRows' = RowsOfLoad(LatestLoad')
     /\ (pageError' # Null /\ pageError'[1] \in ReadErrors)
          => /\ LatestLoad'.stage = "applied"
             /\ LatestLoad'.fetchError = pageError'
    ]_vars

\* The response to a superseded load has arrived and was dropped, and the
\* page shows the rows of the latest load, which differ from it.
C18_Witness ==
  /\ Len(loads) >= 2
  /\ loads[1].stage = "dropped"
  /\ loads[1].fetchError = Null
  /\ LatestLoad.stage = "applied"
  /\ LatestLoad.fetchError = Null
  /\ LatestLoad.data # loads[1].data
  /\ logRows = LatestLoad.data
  /\ ~loading

----
\* The daily reset route.  Each request runs GET (POST is the same function);
\* resetPc is the position of each run, resetCalls the invocations of the
\* remote procedures and their returns in the order they happen, and
\* resetResponse the response of each run.

\* Largest number of requests to the route.
MaxRequests == 2

\* The messages of the errors the remote procedures return.
RpcErrors == {"rpc failed"}

\* if (error) with the error ignored.
RpcFailed_Ignored(error) == FALSE

\* if (error).
RpcFailed(error) == error # Null

InitReset ==
  /\ DashIdle
  /\ ExpiryIdle
  /\ CsvIdle
  /\ LogIdle
  /\ ResetIdle

\* A request arrives: GET runs up to its await of history_snapshot_rpc.
ResetGET ==
  /\ Len(resetPc) < MaxRequests
  /\ resetPc' = Append(resetPc, "snapshot")
  /\ resetCalls' = Append(resetCalls,
       [request |-> Len(resetPc) + 1, rpc |-> "history_snapshot_rpc",
        event |-> "invoke"])
  /\ resetResponse' = Append(resetResponse, Null)
  /\ UNCHANGED <<dashVars, expiryVars, csvVars, logVars>>

\* history_snapshot_rpc returns to run r, which answers with the failed step
\* or goes on to its await of daily_reset_rpc.
SnapshotReturns(r, error) ==
  /\ r \in 1..Len(resetPc)
  /\ resetPc[r] = "snapshot"
  /\ LET returned == Append(resetCalls,
           [request |-> r, rpc |-> "history_snapshot_rpc",
            event |-> IF error = Null THEN "ok" ELSE "error"])
     IN IF RpcFailed(error)
        THEN /\ resetCalls' = returned
             /\ resetPc' = [resetPc EXCEPT ![r] = "done"]
             /\ resetResponse' = [resetResponse EXCEPT ![r] =
                  Some([status |-> 500, ok |-> FALSE, step |-> Some("snapshot"),
                        error |-> error])]
        ELSE /\ resetCalls' = Append(returned,
                  [request |-> r, rpc |-> "daily_reset_rpc",
                   event |-> "invoke"])
             /\ resetPc' = [resetPc EXCEPT ![r] = "daily_reset"]
             /\ UNCHANGED resetResponse
  /\ UNCHANGED <<dashVars, expiryVars, csvVars, logVars>>

\* daily_reset_rpc returns to run r, which answers.
DailyResetReturns(r, error) ==
  /\ r \in 1..Len(resetPc)
  /\ resetPc[r] = "daily_reset"
  /\ resetCalls' = Append(resetCalls,
       [request |-> r, rpc |-> "daily_reset_rpc",
        event |-> IF error = Null THEN "ok" ELSE "error"])
  /\ resetPc' = [resetPc EXCEPT ![r] = "done"]
  /\ resetResponse' = [resetResponse EXCEPT ![r] =
       IF RpcFailed(error)
       THEN Some([status |-> 500, ok |-> FALSE, step |-> Some("daily_reset"),
                  error |-> error])
       ELSE Some([status |-> 200, ok |-> TRUE, step |-> Null, error |-> Null])]
  /\ UNCHANGED <<dashVars, expiryVars, csvVars, logVars>>

RequestIds == 1..MaxRequests

NextReset ==
  \/ ResetGET
  \/ \E r \in RequestIds, m \in RpcErrors : SnapshotReturns(r, Some(m))
  \/ \E r \in RequestIds : SnapshotReturns(r, Null)
  \/ \E r \in RequestIds, m \in RpcErrors : DailyResetReturns(r, Some(m))
  \/ \E r \in RequestIds : DailyResetReturns(r, Null)

SpecReset == InitReset /\ [][NextReset]_vars

\* The positions in resetCalls of an event of a procedure for a request.
CallsAt(r, rpc, event) ==
  {p \in 1..Len(resetCalls) :
     resetCalls[p] = [request |-> r, rpc |-> rpc, event |-> event]}

\* C17: daily_reset_rpc is invoked for a request only after
\* history_snapshot_rpc returned to it without error; after a failed snapshot
\* the reset is never invoked and the response names step snapshot; after a
\* failed reset the response names step daily_reset; the response has ok true
\* only when both procedures succeeded, the snapshot first.
C17_ResetOnlyAfterSnapshot ==
  \A r \in 1..Len(resetPc) :
    /\ \A p \in CallsAt(r, "daily_reset_rpc", "invoke") :
         \E q \in CallsAt(r, "history_snapshot_rpc", "ok") : q < p
    /\ CallsAt(r, "history_snapshot_rpc", "error") # {} =>
         /\ CallsAt(r, "daily_reset_rpc", "invoke") = {}
         /\ resetResponse[r] # Null
         /\ ~resetResponse[r][1].ok
         /\ resetResponse[r][1].step = Some("snapshot")
    /\ CallsAt(r, "daily_reset_rpc", "error") # {} =>
         /\ resetResponse[r] # Null
         /\ ~resetResponse[r][1].ok
         /\ resetResponse[r][1].step = Some("daily_reset")
    /\ (resetResponse[r] # Null /\ resetResponse[r][1].ok) =>
         \E p \in CallsAt(r, "history_snapshot_rpc", "ok") :
           \E q \in CallsAt(r, "daily_reset_rpc", "ok") :
             /\ p < q
             /\ CallsAt(r, "history_snapshot_rpc", "error") = {}
             /\ CallsAt(r, "daily_reset_rpc", "error") = {}

\* One request has failed at its snapshot, and another has run both
\* procedures and answered ok.
C17_Witness ==
  /\ \E r \in 1..Len(resetPc) :
       /\ CallsAt(r, "history_snapshot_rpc", "error") # {}
       /\ resetResponse[r] # Null
       /\ resetResponse[r][1].step = Some("snapshot")
  /\ \E r \in 1..Len(resetPc) :
       /\ resetResponse[r] # Null
       /\ resetResponse[r][1].ok
       /\ CallsAt(r, "daily_reset_rpc", "ok") # {}

----
\* Claims about the dashboard and the remote store.

\* The edits of an entity's row whose upsert the store has applied and whose
\* response the page has handled.
AppliedIds(characterId) ==
  {id \in IssuedIds : calls[id].characterId = characterId /\ calls[id].stage = "saved"}

\* The row the store holds for the entity: the one under the conflict key of
\* its most recently issued applied upsert.
StoredRow(characterId) ==
  LET last == CHOOSE id \in AppliedIds(characterId) :
                \A other \in AppliedIds(characterId) : other <= id
      at == CHOOSE i \in 1..Len(store) :
              Conflicts(store[i], calls[last].payload, calls[last].onConflict)
  IN store[at]

\* C19: whenever an entity has no edit in flight, at least one of its upserts
\* has been applied by the remote store and its lastError is absent, the five
\* field values and the activation timestamp shown are those of the row the
\* store holds for it.
C19_ViewMatchesStore ==
  \A characterId \in CharacterIds :
    (/\ \A id \in IssuedIds : calls[id].characterId = characterId => ~InFlight(id)
     /\ AppliedIds(characterId) # {}
     /\ RowOf(characterId).lastError = Null)
      => /\ \A key \in FieldKeySet :
              Carries(StoredRow(characterId), key, RowOf(characterId)[key])
         /\ StoredRow(characterId).golden_started_at
              = RowOf(characterId).golden_started_at

\* The entities of the rows in the order of the rows.
IdsOf(rs) == [i \in 1..Len(rs) |-> rs[i].characterId]

\* The step issues edit id.
Issued(id) == id = Len(calls') /\ Len(calls') = Len(calls) + 1

\* C20: issuing an edit for an entity, and applying the response to it,
\* leaves the row of every other entity unchanged and neither adds, removes
\* nor reorders rows.
C20_OtherRowsUntouched ==
  [][/\ IdsOf(rows') = IdsOf(rows)
     /\ \A id \in CallIds :
          (Issued(id) \/ (id <= Len(calls) /\ ResponseApplied(id)))
            => \A i \in 1..Len(rows) :
                 rows[i].characterId # calls'[id].characterId
                   => rows'[i] = rows[i]
    ]_vars

\* The response to an edit of c1 has been applied while an edit of c2 is in
\* flight and shown.
C20_Witness ==
  \E a, b \in IssuedIds :
    /\ calls[a].characterId = "c1"
    /\ calls[a].stage \in {"saved", "failed"}
    /\ calls[b].characterId = "c2"
    /\ InFlight(b)
    /\ RowOf("c2")[calls[b].field] = calls[b].value
    /\ RowOf("c2").isSaving

\* The row the dashboard builds for the entity when the page is loaded again
\* and its states prop holds the row the store has for it.
ReloadedRow(characterId) ==
  initialRowsDb(<<characterId>>, <<StoredRow(characterId)>>)[1]

\* C21: in the upsertFor variant, for each of the five fields, the label of a
\* successfully saved selection, converted to its stored value for the
\* payload and converted back when the rows are rebuilt from the store, is
\* the same label: the selection is shown unchanged after a reload.
C21_LabelRoundTrip ==
  variant = "upsertFor" =>
    \A id \in IssuedIds :
      (/\ calls[id].stage = "saved"
       /\ \A other \in AppliedIds(calls[id].characterId) : other <= id)
        => \A key \in FieldKeySet :
             ReloadedRow(calls[id].characterId)[key] = calls[id].next[key]

====
